---- MODULE Spec2Model ----
(***************************************************************************)
(* Model of scitex-dataset: the local SQLite index store (database.py),    *)
(* the paging loops of the four source adapters (openneuro.py, dandi.py,   *)
(* physionet.py, zenodo.py) and the build pass that connects them.         *)
(*                                                                         *)
(* Text is modelled as a sequence of words (maximal alphanumeric runs),    *)
(* which is what the FTS5 unicode61 tokenizer splits a TEXT value into.    *)
(* A composite key "source:id" is modelled as the pair <<source, id>>;     *)
(* source names and ids of the model contain no colon.                     *)
(***************************************************************************)
EXTENDS Integers, Sequences, FiniteSets, TLC

VARIABLES
    datasets,      \* rows of table `datasets` as seen by the open connection
    datasets_fts,  \* entries of the FTS5 index `datasets_fts`
    indexed,       \* history: key -> records passed to _insert_dataset, in order
    search_out,    \* outcome of the database.search call made on the current store
    db_exists,     \* the database file exists at db_path
    built,         \* history: build was called since the file was last absent
    stats_out,     \* outcome of get_stats, when it was the last call
    clear_out,     \* outcome of clear, when it was the last call
    adapter,       \* the adapter whose fetch_all_datasets is running
    max_datasets,  \* its max_datasets argument (0 stands for None: both are falsy)
    all_datasets,  \* its local all_datasets, and its return value once returned
    page,          \* its local page (OpenNeuro: the position of its cursor)
    fetch_pc,      \* "idle", "loop" (about to request a page), "returned" or "raised"
    responses,     \* history: the page responses received by the running call
    upstream,      \* source -> the page responses its repository serves, by page number
    build_pc,      \* "idle", "loop" (inside `for source in sources`) or "raised"
    sources,       \* build's argument sources
    src_idx,       \* position of the loop in sources
    counts,        \* build's local counts
    metadata,      \* rows of table `metadata`
    nbuilds,       \* number of build calls that have returned
    last_build,    \* history: arguments, upstream and result of the last build call
    prev_build,    \* history: the same for the build call before it
    nchanges,      \* number of changes of an upstream so far
    in_datasets,   \* the list held in memory that search.py's functions are called on
    fn_out,        \* the last call of search_datasets or sort_datasets and its outcome
    fmt_in,        \* an adapter and a raw record of its repository
    fmt_out,       \* the outcome of that adapter's format_dataset on the record
    caller,        \* "build" or "update": who made the running or the last build call
    update_out,    \* what update returned, while no call has written since
    store_before,  \* history: rows, index and metadata when that call was made
    meta_writes,   \* history: how often that call has written the metadata rows
    visible        \* the committed rows, index and metadata: what other connections read

storeVars == <<datasets, datasets_fts, indexed, search_out>>
fetchVars == <<adapter, max_datasets, all_datasets, page, fetch_pc, responses>>
buildVars == <<upstream, build_pc, sources, src_idx, counts, metadata, nbuilds,
               last_build, prev_build, nchanges>>
fileVars == <<db_exists, built, stats_out, clear_out>>
engineVars == <<in_datasets, fn_out>>
formatVars == <<fmt_in, fmt_out>>
callVars == <<caller, update_out, store_before, meta_writes, visible>>
vars == <<storeVars, fileVars, fetchVars, buildVars, engineVars, formatVars, callVars>>

----------------------------------------------------------------------------
(* Python values *)

\* Python None / SQL NULL for a text value
None == <<"<None>">>

\* Python None / SQL NULL for a one-word string (a modality, a source name)
NoneStr == "<None>"

\* Python None / SQL NULL for a number; SQLite orders NULL below every number, and the
\* numbers of the model are not negative
NoneNum == -1

\* the elements of a list
Range(s) == {s[i] : i \in DOMAIN s}

\* list(reversed(s))
Reverse(s) == [i \in 1..Len(s) |-> s[Len(s) + 1 - i]]

\* dict.get(k, default)
Get(d, k, default) == IF k \in DOMAIN d THEN d[k] ELSE default

\* str.lower() / the case folding of the unicode61 tokenizer, on the vocabulary
Lower(w) ==
    CASE w = "Alpha" -> "alpha"
      [] w = "Memory" -> "memory"
      [] w = "Rest" -> "rest"
      [] w = "EEG" -> "eeg"
      [] w = "MRI" -> "mri"
      [] OTHER -> w

\* the tokens FTS5 (unicode61) extracts from one TEXT value; NULL has none
Tokenize(text) ==
    IF text = None THEN {} ELSE {Lower(text[i]) : i \in 1..Len(text)}

\* json.dumps of a list of strings, as the word sequence of the resulting TEXT
\* ('["rest", "n back"]' holds the words of every element, in order)
RECURSIVE JsonDumpsList(_)
JsonDumpsList(lst) ==
    IF lst = <<>> THEN <<>> ELSE Head(lst) \o JsonDumpsList(Tail(lst))

\* json.dumps(dataset): the JSON object of a dict with str keys and JSON-native values
\* (what the adapters' format_dataset produce), as the set of its members
JsonDumps(d) == {<<k, d[k]>> : k \in DOMAIN d}

\* json.loads(data_json)
JsonLoads(s) ==
    [k \in {m[1] : m \in s} |-> (CHOOSE m \in s : m[1] = k)[2]]

----------------------------------------------------------------------------
(* Bounds and sample inputs *)

MaxInserts == 3

DefaultLimit == 50

\* records handed to _insert_dataset (normalized records as the adapters' format_dataset
\* and the tests produce them; a key that is absent is absent from the dict)
DsAlpha == [id |-> "ds1", name |-> <<"Alpha">>, readme |-> <<"Memory">>, downloads |-> 2]
DsBeta == [id |-> "ds1", name |-> <<"beta">>, tasks |-> << <<"Rest">> >>]
DsTwo == [id |-> "ds2", name |-> <<"alpha", "beta">>, downloads |-> 1]
DsPhysio == [id |-> "p1", name |-> <<"gamma">>, abstract |-> <<"delta">>]
\* a record with null and empty values, as the adapters produce them from null API
\* fields (openneuro: analytics.get("downloads"); physionet: subject_count)
DsNull == [id |-> "d3", name |-> <<"beta">>, n_subjects |-> NoneNum, downloads |-> NoneNum,
           readme |-> <<>>, modalities |-> <<"MRI">>, primary_modality |-> "EEG"]

\* the (dataset, source) pairs _insert_dataset is called with
InsertInputs == {<<DsAlpha, "openneuro">>, <<DsBeta, "openneuro">>,
                 <<DsTwo, "openneuro">>, <<DsPhysio, "physionet">>, <<DsNull, "dandi">>}

\* query strings tried by search; "" stands for an absent query (falsy in `if query:`)
NoQuery == ""
Queries == {NoQuery, "alpha", "Alpha", "beta", "memory", "rest", "gamma", "delta",
            "openneuro", "ds1", "zzz"}
\* <<limit, offset>> pairs tried by search
LimitOffsets == {<<DefaultLimit, 0>>, <<1, 0>>, <<1, 1>>, <<2, 1>>}

\* the defaults of search's parameters; "" stands for an absent str (None and "" are
\* both falsy), NoneNum for an absent number (`is not None` is tested)
DefaultCall ==
    [query |-> NoQuery, source |-> "", modality |-> "", min_subjects |-> NoneNum,
     max_subjects |-> NoneNum, min_downloads |-> NoneNum, has_readme |-> FALSE,
     limit |-> DefaultLimit, offset |-> 0, order_by |-> "downloads"]

\* <<modality, min_subjects, max_subjects, min_downloads, has_readme>> tried by search
Filters ==
    {<<"eeg", NoneNum, NoneNum, NoneNum, FALSE>>, <<"EEG", NoneNum, NoneNum, NoneNum, FALSE>>,
     <<"mri", NoneNum, NoneNum, NoneNum, FALSE>>, <<"", 0, NoneNum, NoneNum, FALSE>>,
     <<"", 1, NoneNum, NoneNum, FALSE>>, <<"", NoneNum, 1, NoneNum, FALSE>>,
     <<"", NoneNum, NoneNum, 0, FALSE>>, <<"", NoneNum, NoneNum, 2, FALSE>>,
     <<"", NoneNum, NoneNum, NoneNum, TRUE>>, <<"mri", 0, NoneNum, NoneNum, FALSE>>,
     <<"", 0, 1, 1, TRUE>>, <<"eeg", NoneNum, 1, 0, FALSE>>}

\* order_by values tried by search: of the allow-list, and outside it ("id" names a
\* column of the table, "bogus" names none)
OrderBys == {"downloads", "n_subjects", "name", "views", "id", "bogus"}

\* the calls of search that are tried
SearchCalls ==
    {[DefaultCall EXCEPT !.query = q] : q \in Queries}
    \cup {[DefaultCall EXCEPT !.query = q, !.limit = lo[1], !.offset = lo[2]] :
            q \in {NoQuery, "beta", "rest"}, lo \in LimitOffsets}
    \cup {[DefaultCall EXCEPT !.modality = f[1], !.min_subjects = f[2], !.max_subjects = f[3],
                              !.min_downloads = f[4], !.has_readme = f[5]] : f \in Filters}
    \cup {[DefaultCall EXCEPT !.order_by = o, !.limit = lo[1], !.offset = lo[2]] :
            o \in OrderBys, lo \in {<<DefaultLimit, 0>>, <<1, 1>>}}
    \cup {[DefaultCall EXCEPT !.query = "beta", !.order_by = o] : o \in {"name", "bogus"}}
    \cup {[DefaultCall EXCEPT !.source = src] : src \in {"openneuro", "dandi"}}

----------------------------------------------------------------------------
(* The store: table datasets, index datasets_fts and its triggers *)

\* f"{source}:{dataset.get('id', '')}"
FormatKey(source, dataset) == <<source, Get(dataset, "id", "")>>

\* the words of the TEXT "source:id" (the colon separates two words)
KeyText(key) == IF key[2] = "" THEN <<key[1]>> ELSE <<key[1], key[2]>>

\* the connection returned by _get_connection never sets PRAGMA recursive_triggers,
\* so SQLite keeps its default: OFF
recursive_triggers == FALSE

\* rowid of a table declared `id TEXT PRIMARY KEY`: SQLite picks max(rowid)+1
\* before it resolves the conflict
NewRowid(tbl) ==
    IF tbl = {} THEN 1
    ELSE 1 + (CHOOSE m \in {r.rowid : r \in tbl} : \A r \in tbl : r.rowid <= m)

\* the tuple of values bound by _insert_dataset (modified, license, doi, url and
\* indexed_at are stored and never read by a query)
Row(rowid, source, dataset) ==
    [rowid |-> rowid,
     id |-> FormatKey(source, dataset),
     source |-> source,
     name |-> Get(dataset, "name", None),
     created |-> Get(dataset, "created", None),
     n_subjects |-> Get(dataset, "n_subjects", 0),
     size_gb |-> Get(dataset, "size_gb", 0),
     downloads |-> Get(dataset, "downloads", 0),
     views |-> Get(dataset, "views", 0),
     readme |-> Get(dataset, "readme", None),
     modalities |-> Get(dataset, "modalities", <<>>),
     tasks |-> JsonDumpsList(Get(dataset, "tasks", <<>>)),
     primary_modality |-> Get(dataset, "primary_modality", NoneStr),
     data_json |-> JsonDumps(dataset)]

\* what the index holds for one INSERT INTO datasets_fts(rowid, id, name, readme, tasks)
FtsEntry(row) ==
    [rowid |-> row.rowid,
     id |-> Tokenize(KeyText(row.id)),
     name |-> Tokenize(row.name),
     readme |-> Tokenize(row.readme),
     tasks |-> Tokenize(row.tasks)]

\* trigger datasets_ai
datasets_ai(fts, new) == fts \cup {FtsEntry(new)}

\* trigger datasets_ad: the FTS5 'delete' command with the old values
datasets_ad(fts, old) == fts \ {FtsEntry(old)}

\* faulty variant of Conflicting: a table without the PRIMARY KEY constraint
ConflictingNoPrimaryKey(tbl, key) == {}

\* rows that violate the PRIMARY KEY constraint on id
Conflicting(tbl, key) == {r \in tbl : r.id = key}

\* INSERT OR REPLACE INTO datasets: the conflicting row is deleted, and its delete
\* trigger fires only under recursive_triggers; then the row is inserted and
\* datasets_ai fires (no statement of database.py is an UPDATE, so datasets_au never fires)
InsertOrReplace(tbl, fts, new) ==
    LET old == Conflicting(tbl, new.id)
        fts1 == IF recursive_triggers /\ old # {}
                THEN datasets_ad(fts, CHOOSE o \in old : TRUE)
                ELSE fts
    IN  [datasets |-> (tbl \ old) \cup {new},
         datasets_fts |-> datasets_ai(fts1, new)]

\* _insert_dataset(conn, dataset, source)
insert_dataset(tbl, fts, dataset, source) ==
    InsertOrReplace(tbl, fts, Row(NewRowid(tbl), source, dataset))

\* no search has been made since the store last changed
NoSearch == DefaultCall @@ [status |-> "none", results |-> <<>>]

\* a database file with its tables and no row
EmptyStore == [datasets |-> {}, datasets_fts |-> {}, metadata |-> <<>>]

\* update was not the last call that wrote to the store
NoUpdate == [status |-> "none"]

\* get_stats / clear was not the last call
NoStats == [status |-> "none"]
NoClear == [status |-> "none"]

\* _get_connection: sqlite3.connect creates the file, and the call is neither
\* get_stats nor clear
Connect ==
    /\ db_exists' = TRUE
    /\ stats_out' = NoStats
    /\ clear_out' = NoClear

\* faulty variant of Uncommitted: a connection in autocommit mode
Autocommit(vis, db) == db

\* what a connection wrote and has not committed
Uncommitted(vis, db) == vis

\* conn.commit(): the rows, index entries and metadata rows the connection
\* wrote are what every connection reads from now on
Commit(vis, db) == db

\* a connection opened by a test or a caller, _insert_dataset, commit
InsertWith(inputs) ==
    /\ build_pc = "idle"
    /\ Len(indexed) < MaxInserts
    /\ \E input \in inputs :
        LET dataset == input[1]
            source == input[2]
            db == insert_dataset(datasets, datasets_fts, dataset, source)
        IN  /\ datasets' = db.datasets
            /\ datasets_fts' = db.datasets_fts
            /\ indexed' = Append(indexed, [key |-> FormatKey(source, dataset),
                                           source |-> source, dataset |-> dataset])
            /\ visible' = Commit(visible, [datasets |-> db.datasets,
                                           datasets_fts |-> db.datasets_fts,
                                           metadata |-> metadata])
    /\ search_out' = NoSearch
    /\ Connect
    /\ update_out' = NoUpdate
    /\ UNCHANGED <<caller, store_before, meta_writes, built, fetchVars, engineVars,
                   formatVars, buildVars>>

InsertDataset == InsertWith(InsertInputs)

----------------------------------------------------------------------------
(* database.search *)

\* index entries matched by `datasets_fts MATCH ?` for a one-token query
FtsMatch(fts, query) ==
    {e \in fts : Lower(query) \in (e.id \cup e.name \cup e.readme \cup e.tasks)}

\* SELECT id FROM datasets_fts WHERE datasets_fts MATCH ?  -- the id is read from the
\* content table by rowid; a matched rowid without a content row is FTS5_CORRUPT
FtsCorrupt(tbl, fts, query) ==
    \E e \in FtsMatch(fts, query) : \A r \in tbl : r.rowid # e.rowid

FtsIds(tbl, fts, query) ==
    {r.id : r \in {x \in tbl : \E e \in FtsMatch(fts, query) : e.rowid = x.rowid}}

\* `x >= ?` and `x <= ?` in SQL: NULL compares to nothing
SqlGe(x, bound) == x # NoneNum /\ x >= bound
SqlLe(x, bound) == x # NoneNum /\ x <= bound

\* `modalities LIKE '%"m"%'`: the JSON text of the list holds the element "m"; LIKE
\* ignores the case of ASCII letters
Like(modalities, modality) ==
    \E i \in DOMAIN modalities : Lower(modalities[i]) = Lower(modality)

\* rows that satisfy the WHERE clause (the conditions are joined by AND)
WhereRows(tbl, fts, call) ==
    {r \in tbl :
        /\ call.query # NoQuery => r.id \in FtsIds(tbl, fts, call.query)
        /\ call.source # "" => r.source = call.source
        /\ call.modality # "" =>
            (Like(r.modalities, call.modality) \/ r.primary_modality = call.modality)
        /\ call.min_subjects # NoneNum => SqlGe(r.n_subjects, call.min_subjects)
        /\ call.max_subjects # NoneNum => SqlLe(r.n_subjects, call.max_subjects)
        /\ call.min_downloads # NoneNum => SqlGe(r.downloads, call.min_downloads)
        /\ call.has_readme => (r.readme # None /\ r.readme # <<>>)}

\* valid_orders, and the columns of table datasets a query can name
valid_orders == {"downloads", "views", "n_subjects", "size_gb", "name", "created"}
NumericColumns == {"n_subjects", "size_gb", "downloads", "views"}
TextColumns == {"id", "name", "created"}

\* `if order_by not in valid_orders: order_by = "downloads"`
OrderBy(order_by) == IF order_by \in valid_orders THEN order_by ELSE "downloads"

\* the position of a word in the BINARY collation (ASCII order) of the vocabulary
WordRank(w) ==
    CASE w = "2020" -> 1 [] w = "2021" -> 2 [] w = "A" -> 3 [] w = "Alpha" -> 4
      [] w = "N" -> 5 [] w = "alpha" -> 6 [] w = "beta" -> 7 [] w = "d1" -> 8
      [] w = "d2" -> 9 [] w = "d3" -> 10 [] w = "dandi" -> 11 [] w = "ds1" -> 12
      [] w = "ds2" -> 13 [] w = "gamma" -> 14 [] w = "openneuro" -> 15 [] w = "p1" -> 16
      [] w = "p2" -> 17 [] w = "physionet" -> 18 [] OTHER -> 0

RECURSIVE LexLessEq(_, _)
LexLessEq(a, b) ==
    IF a = <<>> THEN TRUE
    ELSE IF b = <<>> THEN FALSE
    ELSE IF WordRank(Head(a)) # WordRank(Head(b)) THEN WordRank(Head(a)) < WordRank(Head(b))
    ELSE LexLessEq(Tail(a), Tail(b))

\* a <= b for two TEXT values; NULL is below every text
TextLessEq(a, b) ==
    IF a = None THEN TRUE ELSE IF b = None THEN FALSE ELSE LexLessEq(a, b)

\* the value ORDER BY reads from a row
SortValue(r, col) == IF col = "id" THEN KeyText(r.id) ELSE r[col]

\* row a may come before row b under ORDER BY col DESC
DescOrdered(col, a, b) ==
    IF col \in NumericColumns THEN SortValue(a, col) >= SortValue(b, col)
    ELSE TextLessEq(SortValue(b, col), SortValue(a, col))

\* ORDER BY col DESC: rows with equal values come in the order of the scan the query
\* planner picked, which depends on the store and on the query text but not on the
\* values bound to LIMIT and OFFSET; it is one fixed order for a set of rows
OrderByDesc(rows, col) ==
    CHOOSE s \in [1..Cardinality(rows) -> rows] :
        /\ \A i, j \in DOMAIN s : i # j => s[i] # s[j]
        /\ \A i, j \in DOMAIN s : i < j => DescOrdered(col, s[i], s[j])

\* LIMIT ? OFFSET ?
LimitOffset(s, limit, offset) ==
    SubSeq(s, offset + 1, IF offset + limit < Len(s) THEN offset + limit ELSE Len(s))

\* a result built from the columns of the row instead of data_json
RowToProjection(r) == [id |-> r.id[2], name |-> r.name, downloads |-> r.downloads]

\* json.loads(row["data_json"])
RowToRecord(r) == JsonLoads(r.data_json)

\* search(**call) on the store: what it raises or returns
search(tbl, fts, call) ==
    LET col == OrderBy(call.order_by)
    IN  IF col \notin NumericColumns \cup TextColumns
        THEN [status |-> "OperationalError", results |-> <<>>]
        ELSE IF call.query # NoQuery /\ FtsCorrupt(tbl, fts, call.query)
        THEN [status |-> "DatabaseError", results |-> <<>>]
        ELSE LET rows == LimitOffset(OrderByDesc(WhereRows(tbl, fts, call), col),
                                     call.limit, call.offset)
             IN  [status |-> "ok", results |-> [i \in DOMAIN rows |-> RowToRecord(rows[i])]]

\* one call of search, drawn from calls
SearchWith(calls) ==
    /\ build_pc = "idle"
    /\ \E call \in calls :
        search_out' = call @@ search(datasets, datasets_fts, call)
    /\ Connect
    /\ UNCHANGED <<callVars, datasets, datasets_fts, indexed, built, fetchVars, engineVars,
                   formatVars, buildVars>>

Search == SearchWith(SearchCalls)

----------------------------------------------------------------------------
(* search.py: search_datasets and sort_datasets *)

MaxRecords == 3

\* formatted records handed to search_datasets and sort_datasets
RecA == [id |-> "a", name |-> <<"Alpha">>, n_subjects |-> 5, modalities |-> <<"eeg">>,
         downloads |-> 2, readme |-> <<"Memory">>, tasks |-> << <<"Rest">> >>,
         created |-> <<"2021">>]
RecB == [id |-> "b", name |-> <<"beta">>, n_subjects |-> 1, modalities |-> <<"EEG">>,
         downloads |-> 2, tasks |-> << <<"memory">> >>, created |-> <<"2020">>]
RecC == [id |-> "c", name |-> <<"alpha", "beta">>, n_subjects |-> 3,
         modalities |-> <<"mri">>, primary_modality |-> "MRI", downloads |-> 0,
         created |-> <<"2020">>]
RecMissing == [id |-> "m", name |-> <<"gamma">>]
RecordPool == {RecA, RecB, RecC, RecMissing, DsNull}

\* the lists of at most n records of the pool
RecordLists(n) == UNION {[1..k -> RecordPool] : k \in 0..n}

\* the defaults of search_datasets' parameters ("" and NoneNum stand for absent)
NoCriteria ==
    [modality |-> "", min_subjects |-> NoneNum, max_subjects |-> NoneNum,
     task_contains |-> "", text_query |-> "", min_downloads |-> NoneNum,
     has_readme |-> FALSE]

\* the criteria search_datasets is called with: each alone, and some together
CriteriaTried ==
    {NoCriteria}
    \cup {[NoCriteria EXCEPT !.modality = m] : m \in {"eeg", "MRI"}}
    \cup {[NoCriteria EXCEPT !.min_subjects = n] : n \in {0, 3}}
    \cup {[NoCriteria EXCEPT !.max_subjects = n] : n \in {3}}
    \cup {[NoCriteria EXCEPT !.task_contains = t] : t \in {"est", "MEM"}}
    \cup {[NoCriteria EXCEPT !.text_query = q] : q \in {"alpha", "Mem"}}
    \cup {[NoCriteria EXCEPT !.min_downloads = n] : n \in {0, 2}}
    \cup {[NoCriteria EXCEPT !.has_readme = TRUE]}
    \cup {[NoCriteria EXCEPT !.modality = "eeg", !.min_subjects = 3],
          [NoCriteria EXCEPT !.modality = "mri", !.max_subjects = 3, !.min_downloads = 0],
          [NoCriteria EXCEPT !.min_subjects = 1, !.min_downloads = 1],
          [NoCriteria EXCEPT !.text_query = "beta", !.has_readme = TRUE],
          [NoCriteria EXCEPT !.task_contains = "rest", !.min_subjects = 0],
          [NoCriteria EXCEPT !.modality = "meg", !.min_subjects = 0]}

\* the lower-cased substrings of a lower-cased word that the criteria tried can hit
Substrings(w) ==
    {w} \cup (CASE w = "memory" -> {"mem"} [] w = "rest" -> {"est"} [] OTHER -> {})

\* `q.lower() in text.lower()` for a one-word q; None and "" hold nothing
Contains(text, q) ==
    /\ text # None
    /\ \E i \in DOMAIN text : Lower(q) \in Substrings(Lower(text[i]))

\* the filter stages of search_datasets, in the order of the code
Stages == <<"modality", "min_subjects", "max_subjects", "task_contains", "text_query",
            "min_downloads", "has_readme">>

\* `if <criterion>:` / `if <criterion> is not None:`
Supplied(stage, c) ==
    CASE stage \in {"modality", "task_contains", "text_query"} -> c[stage] # ""
      [] stage \in {"min_subjects", "max_subjects", "min_downloads"} -> c[stage] # NoneNum
      [] stage = "has_readme" -> c.has_readme

\* the condition of a stage's list comprehension raises TypeError on record d:
\* None >= int and None <= int are not defined
StageRaises(stage, c, d) ==
    /\ stage \in {"min_subjects", "max_subjects"}
    /\ Get(d, "n_subjects", 0) = NoneNum

\* the condition of a stage's list comprehension on record d
StageKeeps(stage, c, d) ==
    CASE stage = "modality" ->
            \/ Lower(c.modality) \in {Lower(m) : m \in Range(Get(d, "modalities", <<>>))}
            \/ Lower(c.modality) =
                 Lower(IF Get(d, "primary_modality", NoneStr) = NoneStr
                       THEN "" ELSE d.primary_modality)
      [] stage = "min_subjects" -> Get(d, "n_subjects", 0) >= c.min_subjects
      [] stage = "max_subjects" -> Get(d, "n_subjects", 0) <= c.max_subjects
      [] stage = "task_contains" ->
            \E i \in DOMAIN Get(d, "tasks", <<>>) : Contains(d.tasks[i], c.task_contains)
      [] stage = "text_query" ->
            \/ Contains(Get(d, "name", None), c.text_query)
            \/ Contains(Get(d, "readme", None), c.text_query)
      [] stage = "min_downloads" ->
            (IF Get(d, "downloads", NoneNum) = NoneNum THEN 0 ELSE d.downloads)
                >= c.min_downloads
      [] stage = "has_readme" ->
            Get(d, "readme", None) # None /\ Get(d, "readme", None) # <<>>

\* `if <criterion>: results = [d for d in results if <condition>]`
Stage(st, stage, c) ==
    IF st.status # "ok" \/ ~Supplied(stage, c) THEN st
    ELSE IF \E i \in DOMAIN st.results : StageRaises(stage, c, st.results[i])
    THEN [status |-> "TypeError", results |-> <<>>]
    ELSE [status |-> "ok",
          results |-> SelectSeq(st.results, LAMBDA d : StageKeeps(stage, c, d))]

\* the stages applied one after the other, in the given order
RECURSIVE ApplyStages(_, _, _)
ApplyStages(st, order, c) ==
    IF order = <<>> THEN st ELSE ApplyStages(Stage(st, Head(order), c), Tail(order), c)

\* search_datasets(datasets, **c): what it raises or returns
search_datasets(dss, c) == ApplyStages([status |-> "ok", results |-> dss], Stages, c)

\* the fields sort_datasets is called with; created is text, the others numbers
SortFields == {"downloads", "n_subjects", "created"}

\* d.get(by) of a record without the field, or with None stored under it
FieldNone(by) == IF by = "created" THEN None ELSE NoneNum

\* get_key: d.get(by), or 0 / float("inf") when that is None
get_key(d, by, descending) ==
    LET val == Get(d, by, FieldNone(by))
    IN  IF val = FieldNone(by)
        THEN (IF descending THEN [type |-> "int", val |-> 0] ELSE [type |-> "float_inf"])
        ELSE [type |-> IF by = "created" THEN "str" ELSE "int", val |-> val]

\* a < b raises TypeError: str against int or float
KeyLtRaises(a, b) == (a.type = "str") # (b.type = "str")

\* a < b between two keys that can be compared
KeyLt(a, b) ==
    CASE a.type = "str" -> ~LexLessEq(b.val, a.val)
      [] a.type = "float_inf" -> FALSE
      [] b.type = "float_inf" -> TRUE
      [] OTHER -> a.val < b.val

\* one insertion of list.sort: x goes behind every element that is not above it
InsertSorted(s, x, by, descending) ==
    LET above == {i \in DOMAIN s :
                    KeyLt(get_key(x, by, descending), get_key(s[i], by, descending))}
        pos == IF above = {} THEN Len(s) + 1
               ELSE CHOOSE i \in above : \A j \in above : i <= j
    IN  SubSeq(s, 1, pos - 1) \o <<x>> \o SubSeq(s, pos, Len(s))

\* list.sort by key: stable, ascending
RECURSIVE SortByKey(_, _, _)
SortByKey(l, by, descending) ==
    IF l = <<>> THEN <<>>
    ELSE InsertSorted(SortByKey(SubSeq(l, 1, Len(l) - 1), by, descending), l[Len(l)],
                      by, descending)

\* a descending sort that reverses the ascending one and nothing else
sortedReversedAfter(l, by, descending) ==
    IF descending THEN Reverse(SortByKey(l, by, descending))
    ELSE SortByKey(l, by, descending)

\* sorted(datasets, key=get_key, reverse=descending): with reverse the list is
\* reversed, sorted and reversed again
sorted(l, by, descending) ==
    IF descending THEN Reverse(SortByKey(Reverse(l), by, descending))
    ELSE SortByKey(l, by, descending)

\* sort_datasets(datasets, by, descending): what it raises or returns; the
\* sort of two or more keys compares every key with another one
sort_datasets(dss, by, descending) ==
    IF \E i, j \in DOMAIN dss :
           KeyLtRaises(get_key(dss[i], by, descending), get_key(dss[j], by, descending))
    THEN [status |-> "TypeError", results |-> <<>>]
    ELSE [status |-> "ok", results |-> sorted(dss, by, descending)]

\* no function of search.py was called on the list yet
NoCall == [fn |-> "none"]

\* search_datasets(in_datasets, **c)
SearchDatasets ==
    \E c \in CriteriaTried :
        /\ fn_out' = [fn |-> "search_datasets", criteria |-> c]
                        @@ search_datasets(in_datasets, c)
        /\ UNCHANGED <<callVars, formatVars, in_datasets, storeVars, fileVars, fetchVars,
                       buildVars>>

\* sort_datasets(in_datasets, by, descending)
SortDatasets ==
    \E by \in SortFields, descending \in BOOLEAN :
        /\ fn_out' = [fn |-> "sort_datasets", by |-> by, descending |-> descending,
                      again |-> FALSE]
                        @@ sort_datasets(in_datasets, by, descending)
        /\ UNCHANGED <<callVars, formatVars, in_datasets, storeVars, fileVars, fetchVars,
                       buildVars>>

\* sort_datasets called on the list it has just returned, with the same arguments
SortAgain ==
    /\ fn_out.fn = "sort_datasets"
    /\ fn_out.status = "ok"
    /\ ~fn_out.again
    /\ in_datasets' = fn_out.results
    /\ fn_out' = [fn |-> "sort_datasets", by |-> fn_out.by,
                  descending |-> fn_out.descending, again |-> TRUE]
                    @@ sort_datasets(fn_out.results, fn_out.by, fn_out.descending)
    /\ UNCHANGED <<callVars, formatVars, storeVars, fileVars, fetchVars, buildVars>>

----------------------------------------------------------------------------
(* fetch_all_datasets of the four adapters *)

MaxPages == 3
MaxPageLen == 2
MaxMax == 3

Adapters == {"openneuro", "dandi", "physionet", "zenodo"}

\* max_datasets=None (and 0, which `if max_datasets and ...` treats alike)
NoMax == 0

\* outcomes of one fetch_datasets call that is not a parsed page:
\* raise_for_status() raising, the transport failing, response.json() failing
HTTPStatusError == "HTTPStatusError"
RequestError == "RequestError"
Malformed == "malformed"
TransportFailures == {HTTPStatusError, RequestError}

Failure(kind) == [kind |-> kind]

\* the records of a parsed page, whatever the adapter calls them
PageRecords(resp) ==
    IF resp.kind # "ok" THEN <<>>
    ELSE IF "edges" \in DOMAIN resp THEN resp.edges
    ELSE IF "hits" \in DOMAIN resp THEN resp.hits
    ELSE resp.results

\* the records of the pages received so far, in request order
RECURSIVE Concat(_)
Concat(resps) ==
    IF resps = <<>> THEN <<>> ELSE PageRecords(Head(resps)) \o Concat(Tail(resps))

\* all_datasets[:max_datasets]
Trim(all, max) == SubSeq(all, 1, IF max < Len(all) THEN max ELSE Len(all))

Break(st) == [st EXCEPT !.pc = "returned"]
Raise(st) == [st EXCEPT !.pc = "raised"]

\* one iteration of `while True:` in openneuro.fetch_all_datasets
OpenNeuroStep(st, resp, max) ==
    IF resp.kind \in TransportFailures THEN Break(st)
    ELSE IF resp.kind = Malformed THEN Raise(st)
    ELSE IF resp.kind = "errors" THEN Break(st)
    ELSE LET all == st.all_datasets \o resp.edges
         IN  IF max # NoMax /\ Len(all) >= max
             THEN [st EXCEPT !.all_datasets = all, !.pc = "returned"]
             ELSE IF ~resp.hasNextPage
             THEN [st EXCEPT !.all_datasets = all, !.pc = "returned"]
             ELSE [st EXCEPT !.all_datasets = all, !.page = @ + 1]

\* one iteration of `while True:` in dandi.fetch_all_datasets
DandiStep(st, resp, max) ==
    IF resp.kind \in TransportFailures THEN Break(st)
    ELSE IF resp.kind = Malformed THEN Raise(st)
    ELSE IF resp.results = <<>> THEN Break(st)
    ELSE LET all == st.all_datasets \o resp.results
         IN  IF max # NoMax /\ Len(all) >= max
             THEN [st EXCEPT !.all_datasets = Trim(all, max), !.pc = "returned"]
             ELSE IF ~resp.next
             THEN [st EXCEPT !.all_datasets = all, !.pc = "returned"]
             ELSE [st EXCEPT !.all_datasets = all, !.page = @ + 1]

\* one iteration of `while True:` in physionet.fetch_all_datasets
PhysioNetStep(st, resp, max) ==
    IF resp.kind \in TransportFailures THEN Break(st)
    ELSE IF resp.kind = Malformed THEN Raise(st)
    ELSE LET databases == resp.results
             has_next == IF resp.list THEN FALSE ELSE resp.next
         IN  IF databases = <<>> THEN Break(st)
             ELSE LET all == st.all_datasets \o databases
                  IN  IF max # NoMax /\ Len(all) >= max
                      THEN [st EXCEPT !.all_datasets = Trim(all, max), !.pc = "returned"]
                      ELSE IF ~has_next
                      THEN [st EXCEPT !.all_datasets = all, !.pc = "returned"]
                      ELSE [st EXCEPT !.all_datasets = all, !.page = @ + 1]

\* one iteration of `while True:` in zenodo.fetch_all_datasets (no try/except)
ZenodoStep(st, resp, max) ==
    IF resp.kind \in TransportFailures \cup {Malformed} THEN Raise(st)
    ELSE IF resp.hits = <<>> THEN Break(st)
    ELSE LET all == st.all_datasets \o resp.hits
         IN  IF max # NoMax /\ Len(all) >= max
             THEN [st EXCEPT !.all_datasets = Trim(all, max), !.pc = "returned"]
             ELSE IF Len(all) >= resp.total
             THEN [st EXCEPT !.all_datasets = all, !.pc = "returned"]
             ELSE [st EXCEPT !.all_datasets = all, !.page = @ + 1]

Step(a, st, resp, max) ==
    CASE a = "openneuro" -> OpenNeuroStep(st, resp, max)
      [] a = "dandi" -> DandiStep(st, resp, max)
      [] a = "physionet" -> PhysioNetStep(st, resp, max)
      [] a = "zenodo" -> ZenodoStep(st, resp, max)

\* the raw records an upstream serves next: numbered by their upstream position
NextRecords(served, n) == [i \in 1..n |-> served + i]

\* the responses one page request of adapter a can get when `served` records
\* have been served by the pages before it
PageResponses(a, served) ==
    {Failure(k) : k \in TransportFailures \cup {Malformed}} \cup
    CASE a = "openneuro" ->
            {Failure("errors")} \cup
            {[kind |-> "ok", edges |-> NextRecords(served, n), hasNextPage |-> more] :
                n \in 0..MaxPageLen, more \in BOOLEAN}
      [] a = "dandi" ->
            {[kind |-> "ok", results |-> NextRecords(served, n), next |-> more] :
                n \in 0..MaxPageLen, more \in BOOLEAN}
      [] a = "physionet" ->
            {[kind |-> "ok", list |-> lst, results |-> NextRecords(served, n), next |-> more] :
                n \in 0..MaxPageLen, more \in BOOLEAN, lst \in BOOLEAN}
      [] a = "zenodo" ->
            UNION {{[kind |-> "ok", hits |-> NextRecords(served, n), total |-> t] :
                        t \in {0, served + n, served + n + 1}} : n \in 0..MaxPageLen}

\* fetch_all_datasets(max_datasets=max) is called on adapter a
FetchCall ==
    /\ fetch_pc = "idle"
    /\ \E a \in Adapters, max \in 0..MaxMax :
        /\ adapter' = a
        /\ max_datasets' = max
    /\ all_datasets' = <<>>
    /\ page' = 1
    /\ responses' = <<>>
    /\ fetch_pc' = "loop"
    /\ UNCHANGED <<callVars, storeVars, fileVars, engineVars, formatVars, buildVars>>

\* one page request of the running loop of adapter a, and what the loop does with it
FetchPage(a) ==
    /\ fetch_pc = "loop"
    /\ adapter = a
    /\ Len(responses) < MaxPages
    /\ \E resp \in PageResponses(a, Len(Concat(responses))) :
        LET st == Step(a, [all_datasets |-> all_datasets, page |-> page, pc |-> fetch_pc],
                       resp, max_datasets)
        IN  /\ all_datasets' = st.all_datasets
            /\ page' = st.page
            /\ fetch_pc' = st.pc
            /\ responses' = Append(responses, resp)
    /\ UNCHANGED <<callVars, adapter, max_datasets, storeVars, fileVars, engineVars,
                   formatVars, buildVars>>

OpenNeuroPage == FetchPage("openneuro")
DandiPage == FetchPage("dandi")
PhysioNetPage == FetchPage("physionet")
ZenodoPage == FetchPage("zenodo")

\* the adapter reports no further pages with a parsed page, `count` records accumulated
NoFurtherPages(a, resp, count) ==
    CASE a = "openneuro" -> ~resp.hasNextPage
      [] a = "dandi" -> ~resp.next
      [] a = "physionet" -> resp.list \/ ~resp.next
      [] a = "zenodo" -> count >= resp.total

\* the responses of the tail of a repository: from some page on every response
\* is a failure, is empty, or reports no further pages
TailResponses(a, served) ==
    {resp \in PageResponses(a, served) :
        \/ resp.kind # "ok"
        \/ PageRecords(resp) = <<>>
        \/ NoFurtherPages(a, resp, served + Len(PageRecords(resp)))}

\* the cursor or page number of a request in the tail: counted up to the second
\* page of the tail, from where the count starts again at the first
TailPosition(n) == IF n > MaxPages + 2 THEN MaxPages + 1 ELSE n

\* one page request of the running loop of adapter a once the tail is reached
\* (the history of responses is kept up to the tail)
TailPage(a) ==
    /\ fetch_pc = "loop"
    /\ adapter = a
    /\ Len(responses) = MaxPages
    /\ \E resp \in TailResponses(a, Len(all_datasets)) :
        LET st == Step(a, [all_datasets |-> all_datasets, page |-> page, pc |-> fetch_pc],
                       resp, max_datasets)
        IN  /\ all_datasets' = st.all_datasets
            /\ page' = TailPosition(st.page)
            /\ fetch_pc' = st.pc
    /\ UNCHANGED <<callVars, adapter, max_datasets, responses, storeVars, fileVars,
                   engineVars, formatVars, buildVars>>

OpenNeuroTail == TailPage("openneuro")
DandiTail == TailPage("dandi")
PhysioNetTail == TailPage("physionet")
ZenodoTail == TailPage("zenodo")

----------------------------------------------------------------------------
(* format_dataset of the adapters that build knows, and their upstreams *)

MaxBuilds == 2
MaxChanges == 1

KnownSources == {"openneuro", "dandi", "physionet"}

\* `sources = ["openneuro", "dandi", "physionet"]` when the argument is None
DefaultSources == <<"openneuro", "dandi", "physionet">>

\* argument lists build is called with; "zenodo" is a name build does not know
SourceLists ==
    {DefaultSources, <<"openneuro">>, <<"dandi">>, <<"physionet">>,
     <<"zenodo", "dandi">>, <<"physionet", "zenodo">>}

\* {} and "N/A"
EmptyDict == [k \in {} |-> 0]
NA == <<"N", "A">>

\* Python types of a value bound to the license column
LicStr == [py |-> "str"]
LicDict == [py |-> "dict"]
LicList == [py |-> "list"]
LicNone == [py |-> "NoneType"]

\* `a or b` for a text
OrText(a, b) == IF a = None \/ a = <<>> THEN b ELSE a

\* Python None where a dict is expected
NoneDict == [py |-> "NoneType"]

\* Python None where a list of texts (tasks) or of dicts (files) is expected
NoneTexts == <<None>>
NoneDicts == <<NoneDict>>

\* `d or {}`
OrDict(d) == IF DOMAIN d = {"py"} THEN EmptyDict ELSE d

\* `n or 0`
OrZero(n) == IF n = NoneNum THEN 0 ELSE n

\* `l or []` for a list
OrList(l) == IF l = None THEN <<>> ELSE l

\* round(size / 1024**3, 2): sizes are counted in MiB, size_gb in hundredths
SizeGb(size) == (size * 100 + 512) \div 1024

\* openneuro.format_dataset raises KeyError on node["id"]
OpenNeuroFormatRaises(node) == "id" \notin DOMAIN node

\* openneuro.format_dataset (the fields of the common record, and license)
OpenNeuroFormat(node) ==
    LET draft == OrDict(Get(node, "draft", NoneDict))
        description == OrDict(Get(draft, "description", NoneDict))
        summary == OrDict(Get(draft, "summary", NoneDict))
        analytics == OrDict(Get(node, "analytics", NoneDict))
        size_bytes == OrZero(Get(summary, "size", NoneNum))
    IN  [id |-> node.id,
         name |-> OrText(Get(node, "name", None), Get(description, "Name", NA)),
         created |-> Get(node, "created", None),
         views |-> Get(analytics, "views", NoneNum),
         downloads |-> Get(analytics, "downloads", NoneNum),
         readme |-> Get(draft, "readme", None),
         license |-> Get(description, "License", LicNone),
         modalities |-> Get(summary, "modalities", <<>>),
         primary_modality |-> Get(summary, "primaryModality", NoneStr),
         n_subjects |-> Len(OrList(Get(summary, "subjects", None))),
         tasks |-> Get(summary, "tasks", <<>>),
         size_gb |-> SizeGb(size_bytes)]

\* dandi.format_dataset (the fields of the common record it has)
DandiFormat(dandiset) ==
    LET draft == OrDict(Get(dandiset, "draft_version", NoneDict))
    IN  [id |-> Get(dandiset, "identifier", ""),
         name |-> Get(draft, "name",
                      IF "identifier" \in DOMAIN dandiset
                      THEN <<dandiset.identifier>> ELSE NA),
         created |-> Get(dandiset, "created", None),
         size_gb |-> SizeGb(OrZero(Get(draft, "size", NoneNum)))]

\* physionet.format_dataset (the fields of the common record it has, and license)
PhysioNetFormat(database) ==
    LET slug == Get(database, "slug", Get(database, "short_name", ""))
        title == Get(database, "title", Get(database, "name", NA))
        license == Get(database, "license", LicStr)
    IN  [id |-> slug,
         name |-> title,
         abstract |-> Get(database, "abstract", Get(database, "description", <<>>)),
         license |-> IF license = LicDict THEN LicStr ELSE license,
         n_subjects |-> Get(database, "subject_count", 0),
         size_gb |-> SizeGb(OrZero(Get(database, "total_size", NoneNum)))]

\* zenodo.format_dataset raises: record.get(k, {}) hands back the None stored
\* under k, and None has no .get and cannot be iterated
ZenodoFormatRaises(record) ==
    \/ DOMAIN Get(record, "metadata", EmptyDict) = {"py"}
    \/ DOMAIN Get(record, "stats", EmptyDict) = {"py"}
    \/ Get(record, "files", <<>>) = NoneDicts

\* str(v) of a numeric id or of None
StrId(v) == CASE v = NoneNum -> "None" [] v = 1 -> "1" [] OTHER -> "2"

\* sum(f.get("size", 0) for f in files)
RECURSIVE SumSizes(_)
SumSizes(files) ==
    IF files = <<>> THEN 0 ELSE Get(Head(files), "size", 0) + SumSizes(Tail(files))

\* zenodo.format_dataset (the fields of the common record it has)
ZenodoFormat(record) ==
    LET meta == Get(record, "metadata", EmptyDict)
        stats == Get(record, "stats", EmptyDict)
        files == Get(record, "files", <<>>)
        total_size == SumSizes(files)
    IN  [id |-> IF "id" \in DOMAIN record THEN StrId(record.id) ELSE "",
         name |-> Get(meta, "title", <<>>),
         created |-> Get(record, "created", <<>>),
         size_gb |-> IF total_size # 0 THEN SizeGb(total_size) ELSE 0,
         views |-> Get(stats, "views", 0),
         downloads |-> Get(stats, "downloads", 0)]

format_dataset(source, raw) ==
    CASE source = "openneuro" -> OpenNeuroFormat(raw)
      [] source = "dandi" -> DandiFormat(raw)
      [] source = "physionet" -> PhysioNetFormat(raw)
      [] source = "zenodo" -> ZenodoFormat(raw)

FormatRaises(source, raw) ==
    \/ source = "openneuro" /\ OpenNeuroFormatRaises(raw)
    \/ source = "zenodo" /\ ZenodoFormatRaises(raw)

\* a dict with key k bound to one of vals, or without k
Opt(k, vals) == {EmptyDict} \cup {[x \in {k} |-> v] : v \in vals}

\* raw records with any of their fields absent or null
RawRecords(a) ==
    CASE a = "openneuro" ->
            {i @@ n @@ d @@ an :
                i \in Opt("id", {"ds1"}),
                n \in Opt("name", {None, <<"Alpha">>}),
                d \in Opt("draft",
                          {NoneDict, [summary |-> NoneDict],
                           [description |-> [Name |-> <<"beta">>]],
                           [summary |-> [subjects |-> None, modalities |-> None,
                                         tasks |-> NoneTexts, size |-> NoneNum]],
                           [summary |-> [subjects |-> <<"01", "02">>,
                                         modalities |-> <<"eeg">>,
                                         tasks |-> << <<"Rest">> >>, size |-> 2048]]}),
                an \in Opt("analytics",
                           {NoneDict, [views |-> NoneNum, downloads |-> NoneNum],
                            [views |-> 5, downloads |-> 2]})}
      [] a = "dandi" ->
            {i @@ d :
                i \in Opt("identifier", {NoneStr, "d1"}),
                d \in Opt("draft_version",
                          {NoneDict, [name |-> None], [name |-> <<"gamma">>],
                           [size |-> NoneNum], [name |-> <<"gamma">>, size |-> 2048]})}
      [] a = "physionet" ->
            {i @@ t @@ n @@ z :
                i \in Opt("slug", {NoneStr, "p1"}),
                t \in Opt("title", {None, <<"gamma">>}),
                n \in Opt("subject_count", {NoneNum, 2}),
                z \in Opt("total_size", {NoneNum, 2048})}
      [] a = "zenodo" ->
            {i @@ m @@ st @@ f :
                i \in Opt("id", {NoneNum, 1}),
                m \in Opt("metadata", {NoneDict, [title |-> None], [title |-> <<"delta">>]}),
                st \in Opt("stats", {NoneDict, [views |-> 5, downloads |-> 2]}),
                f \in Opt("files", {NoneDicts, << [size |-> 2048] >>})}

\* format_dataset was not called on the record yet
NotFormatted == [status |-> "none"]

\* adapter a's format_dataset is called on the raw record
Format(a) ==
    /\ fmt_in.adapter = a
    /\ fmt_out = NotFormatted
    /\ fmt_out' = IF FormatRaises(a, fmt_in.raw)
                  THEN [status |-> "raised"]
                  ELSE [status |-> "ok", dataset |-> format_dataset(a, fmt_in.raw)]
    /\ UNCHANGED <<callVars, fmt_in, storeVars, fileVars, fetchVars, buildVars, engineVars>>

OpenNeuroFormatCall == Format("openneuro")
DandiFormatCall == Format("dandi")
PhysioNetFormatCall == Format("physionet")
ZenodoFormatCall == Format("zenodo")

\* raw records of the upstreams
NodeOne == [id |-> "ds1", name |-> <<"Alpha">>,
            analytics |-> [views |-> 5, downloads |-> 2],
            draft |-> [readme |-> <<"Memory">>,
                       summary |-> [tasks |-> << <<"Rest">> >>, subjects |-> <<"01", "02">>]]]
NodeOneNew == [id |-> "ds1", name |-> <<"beta">>]
NodeTwo == [id |-> "ds2", draft |-> [description |-> [Name |-> <<"alpha", "beta">>]]]
NodeNoId == [name |-> <<"gamma">>]
DandiOne == [identifier |-> "d1", draft_version |-> [name |-> <<"gamma">>]]
DandiTwo == [identifier |-> "d2"]
PhysioOne == [slug |-> "p1", title |-> <<"gamma">>, abstract |-> <<"delta">>]
PhysioListLicense == [slug |-> "p2", title |-> <<"beta">>, license |-> LicList]

\* the page sequences each repository can serve (page k of a request is element k)
Upstreams(source) ==
    CASE source = "openneuro" ->
            {<< [kind |-> "ok", edges |-> <<NodeOne>>, hasNextPage |-> TRUE],
                [kind |-> "ok", edges |-> <<NodeTwo>>, hasNextPage |-> FALSE] >>,
             << [kind |-> "ok", edges |-> <<NodeOneNew>>, hasNextPage |-> FALSE] >>,
             << [kind |-> "ok", edges |-> <<NodeTwo, NodeNoId>>, hasNextPage |-> FALSE] >>,
             << Failure(HTTPStatusError) >>}
      [] source = "dandi" ->
            {<< [kind |-> "ok", results |-> <<DandiOne, DandiTwo>>, next |-> FALSE] >>,
             << [kind |-> "ok", results |-> <<DandiOne>>, next |-> TRUE],
                [kind |-> "ok", results |-> <<DandiOne>>, next |-> FALSE] >>,
             << [kind |-> "ok", results |-> <<DandiOne>>, next |-> TRUE],
                Failure(HTTPStatusError) >>,
             << Failure(Malformed) >>}
      [] source = "physionet" ->
            {<< [kind |-> "ok", list |-> TRUE, results |-> <<PhysioOne>>, next |-> FALSE] >>,
             << [kind |-> "ok", list |-> FALSE,
                 results |-> <<PhysioOne, PhysioListLicense>>, next |-> FALSE] >>,
             << Failure(RequestError) >>}

\* the upstreams when the model starts
InitialUpstream ==
    [s \in KnownSources |->
        CASE s = "openneuro" ->
                << [kind |-> "ok", edges |-> <<NodeOne>>, hasNextPage |-> TRUE],
                   [kind |-> "ok", edges |-> <<NodeTwo>>, hasNextPage |-> FALSE] >>
          [] s = "dandi" ->
                << [kind |-> "ok", results |-> <<DandiOne, DandiTwo>>, next |-> FALSE] >>
          [] s = "physionet" ->
                << [kind |-> "ok", list |-> TRUE, results |-> <<PhysioOne>>, next |-> FALSE] >>]

\* a request for a page beyond the last one gets an empty last page
EmptyPage(a) ==
    CASE a = "openneuro" -> [kind |-> "ok", edges |-> <<>>, hasNextPage |-> FALSE]
      [] a = "dandi" -> [kind |-> "ok", results |-> <<>>, next |-> FALSE]
      [] a = "physionet" -> [kind |-> "ok", list |-> TRUE, results |-> <<>>, next |-> FALSE]
      [] a = "zenodo" -> [kind |-> "ok", hits |-> <<>>, total |-> 0]

PageAt(a, up, k) == IF k <= Len(up) THEN up[k] ELSE EmptyPage(a)

\* the locals of fetch_all_datasets when the loop is entered
LoopEntry == [all_datasets |-> <<>>, page |-> 1, pc |-> "loop"]

\* fetch_all_datasets run to its end against the page sequence up
RECURSIVE RunFetch(_, _, _, _)
RunFetch(a, st, up, max) ==
    IF st.pc # "loop" THEN st
    ELSE RunFetch(a, Step(a, st, PageAt(a, up, st.page), max), up, max)

fetch_all_datasets(a, up, max) == RunFetch(a, LoopEntry, up, max)

----------------------------------------------------------------------------
(* database.build *)

\* sqlite3 binds None, int, float and str; any other value makes conn.execute raise
Bindable(dataset) == Get(dataset, "license", LicNone).py \in {"str", "NoneType"}

\* `for ds in datasets: _insert_dataset(conn, ds, source)`, up to the first raise
RECURSIVE InsertAll(_, _, _)
InsertAll(store, dss, source) ==
    IF dss = <<>> THEN store
    ELSE IF ~Bindable(Head(dss)) THEN [store EXCEPT !.raised = TRUE]
    ELSE LET db == insert_dataset(store.datasets, store.datasets_fts, Head(dss), source)
         IN  InsertAll([datasets |-> db.datasets,
                        datasets_fts |-> db.datasets_fts,
                        indexed |-> Append(store.indexed,
                                           [key |-> FormatKey(source, Head(dss)),
                                            source |-> source, dataset |-> Head(dss)]),
                        raised |-> FALSE],
                       Tail(dss), source)

\* faulty variant of Put: the assignment is lost
PutNothing(d, k, v) == d

\* d[k] = v
Put(d, k, v) == [x \in DOMAIN d \cup {k} |-> IF x = k THEN v ELSE d[x]]

\* sum(counts.values())
RECURSIVE SumValues(_)
SumValues(d) ==
    IF DOMAIN d = {} THEN 0
    ELSE LET k == CHOOSE x \in DOMAIN d : TRUE
         IN  d[k] + SumValues([x \in DOMAIN d \ {k} |-> d[x]])

\* str(n)
Str(n) == <<"str", n>>

\* faulty variant of SourceErrorCaught: no `try: ... except Exception`
SourceErrorPropagates(pc) == "raised"

\* `except Exception as exc:` logs the error and the loop goes on
SourceErrorCaught(pc) == pc

NoBuild == [sources |-> <<>>, upstream |-> InitialUpstream, counts |-> EmptyDict,
            ids |-> {}, nrows |-> 0]

\* the arguments update is called with; it hands [source] to build
UpdateLists == {<<s>> : s \in Adapters}

\* faulty variant of CreateIfNotExists: the table is dropped and created anew
CreateAfterDrop(tbl) == {}

\* CREATE TABLE IF NOT EXISTS datasets: an existing table keeps its rows
CreateIfNotExists(tbl) == tbl

\* build(sources) is called, by a caller or by update: _get_connection, counts = {}
CallBuild(who, lists) ==
    /\ build_pc = "idle"
    /\ nbuilds < MaxBuilds
    /\ \E srcs \in lists : sources' = srcs
    /\ src_idx' = 1
    /\ counts' = EmptyDict
    /\ build_pc' = "loop"
    /\ Connect
    /\ built' = TRUE
    /\ search_out' = NoSearch
    /\ caller' = who
    /\ update_out' = NoUpdate
    /\ store_before' = [datasets |-> datasets, datasets_fts |-> datasets_fts,
                        metadata |-> metadata]
    /\ meta_writes' = 0
    /\ datasets' = CreateIfNotExists(datasets)
    /\ UNCHANGED <<visible, datasets_fts, indexed, fetchVars, engineVars,
                   formatVars, upstream, metadata, nbuilds, last_build, prev_build,
                   nchanges>>

BuildCall == CallBuild("build", SourceLists)

\* update(source): `result = build(sources=[source], ...)`
UpdateCall == CallBuild("update", UpdateLists)

\* one iteration of `for source in sources:`
BuildSource ==
    /\ build_pc = "loop"
    /\ src_idx <= Len(sources)
    /\ LET source == sources[src_idx]
       IN  IF source \notin KnownSources
           THEN \* logger.warning(...); continue
                UNCHANGED <<storeVars, counts, build_pc>>
           ELSE LET fetched == fetch_all_datasets(source, upstream[source], NoMax)
                    raw == fetched.all_datasets
                IN  IF \/ fetched.pc = "raised"
                       \/ \E i \in DOMAIN raw : FormatRaises(source, raw[i])
                    THEN /\ counts' = Put(counts, source, 0)
                         /\ build_pc' = SourceErrorCaught(build_pc)
                         /\ UNCHANGED storeVars
                    ELSE LET dss == [i \in DOMAIN raw |-> format_dataset(source, raw[i])]
                             store == InsertAll([datasets |-> datasets,
                                                 datasets_fts |-> datasets_fts,
                                                 indexed |-> indexed,
                                                 raised |-> FALSE], dss, source)
                         IN  /\ datasets' = store.datasets
                             /\ datasets_fts' = store.datasets_fts
                             /\ indexed' = store.indexed
                             /\ search_out' = NoSearch
                             /\ counts' = Put(counts, source,
                                              IF store.raised THEN 0 ELSE Len(dss))
                             /\ build_pc' = IF store.raised
                                            THEN SourceErrorCaught(build_pc)
                                            ELSE build_pc
    /\ src_idx' = src_idx + 1
    /\ visible' = Uncommitted(visible, [datasets |-> datasets',
                                        datasets_fts |-> datasets_fts',
                                        metadata |-> metadata])
    /\ UNCHANGED <<caller, update_out, store_before, meta_writes, fileVars, fetchVars,
                   engineVars, formatVars, upstream, sources, metadata, nbuilds,
                   last_build, prev_build, nchanges>>

\* faulty variant of WriteMetadata: the two statements are not executed
WriteMetadataSkipped(meta, now, result) == meta

\* the two INSERT OR REPLACE INTO metadata statements: the time of the build
\* (builds are numbered) and str(sum(counts.values()))
WriteMetadata(meta, now, result) ==
    Put(Put(meta, "last_build", Str(now)), "total_datasets", Str(SumValues(result)))

\* faulty variant of UpdateResult: update hands back no count
UpdateResultZero(result, source) == 0

\* `return result.get(source, 0)`
UpdateResult(result, source) == Get(result, source, 0)

\* after the loop: the metadata rows, commit, close, return counts (and update
\* returns its source's count)
BuildFinish ==
    /\ build_pc = "loop"
    /\ src_idx > Len(sources)
    /\ metadata' = WriteMetadata(metadata, nbuilds + 1, counts)
    /\ meta_writes' = meta_writes + 1
    /\ visible' = Commit(visible, [datasets |-> datasets, datasets_fts |-> datasets_fts,
                                   metadata |-> metadata'])
    /\ update_out' = IF caller = "update"
                     THEN [status |-> "ok", source |-> sources[1],
                           returned |-> UpdateResult(counts, sources[1])]
                     ELSE NoUpdate
    /\ nbuilds' = nbuilds + 1
    /\ prev_build' = last_build
    /\ last_build' = [sources |-> sources, upstream |-> upstream, counts |-> counts,
                      ids |-> {r.id : r \in datasets}, nrows |-> Cardinality(datasets)]
    /\ build_pc' = "idle"
    /\ UNCHANGED <<caller, store_before, storeVars, fileVars, fetchVars, engineVars,
                   formatVars, upstream, sources, src_idx, counts, nchanges>>

\* a repository changes what it serves (between two build calls)
UpstreamChange ==
    /\ build_pc = "idle"
    /\ nbuilds < MaxBuilds
    /\ nchanges < MaxChanges
    /\ nchanges' = nchanges + 1
    /\ \E s \in KnownSources :
        \E up \in Upstreams(s) :
            /\ up # upstream[s]
            /\ upstream' = [upstream EXCEPT ![s] = up]
    /\ UNCHANGED <<callVars, storeVars, fileVars, fetchVars, engineVars, formatVars, build_pc,
                   sources, src_idx, counts,
                   metadata, nbuilds, last_build, prev_build>>

----------------------------------------------------------------------------
(* database.get_stats and database.clear *)

\* SELECT source, COUNT(*) FROM datasets GROUP BY source
SourceCounts(tbl) ==
    [src \in {r.source : r \in tbl} |-> Cardinality({r \in tbl : r.source = src})]

\* faulty variant of CountRows: the total that build stored in the metadata
CountFromMetadata(tbl, meta) == Get(meta, "total_datasets", Str(0))[2]

\* SELECT COUNT(*) as total FROM datasets
CountRows(tbl, meta) == Cardinality(tbl)

\* get_stats(): what it returns (path and the size of the file are not modelled
\* beyond their presence)
get_stats(exists, tbl, meta) ==
    IF ~exists
    THEN [exists |-> FALSE, message |-> "Database not built. Run: db.build()"]
    ELSE [exists |-> TRUE,
          path |-> "db_path",
          total_datasets |-> CountRows(tbl, meta),
          by_source |-> SourceCounts(tbl),
          last_build |-> Get(meta, "last_build", None),
          size_mb |-> "st_size"]

GetStats ==
    /\ build_pc = "idle"
    /\ stats_out' = [status |-> "ok",
                     after_clear |-> clear_out.status # "none",
                     result |-> get_stats(db_exists, datasets, metadata)]
    /\ clear_out' = NoClear
    /\ search_out' = NoSearch
    /\ UNCHANGED <<callVars, datasets, datasets_fts, indexed, db_exists, built, fetchVars,
                   engineVars, formatVars,
                   buildVars>>

\* path.unlink() that leaves the file in place
UnlinkKeeps(exists) == exists

\* path.unlink(): the file is gone
Unlink(exists) == FALSE

\* clear(): `if path.exists(): path.unlink(); return True` else `return False`
Clear ==
    /\ build_pc = "idle"
    /\ clear_out' = [status |-> "ok",
                     repeated |-> clear_out.status # "none",
                     existed |-> db_exists,
                     returned |-> db_exists]
    /\ stats_out' = NoStats
    /\ search_out' = NoSearch
    /\ IF db_exists
       THEN /\ db_exists' = Unlink(db_exists)
            /\ IF db_exists'
               THEN UNCHANGED <<datasets, datasets_fts, indexed, metadata, built>>
               ELSE /\ datasets' = {}
                    /\ datasets_fts' = {}
                    /\ indexed' = <<>>
                    /\ metadata' = EmptyDict
                    /\ built' = FALSE
       ELSE UNCHANGED <<datasets, datasets_fts, indexed, metadata, db_exists, built>>
    /\ visible' = IF db_exists /\ ~db_exists' THEN EmptyStore ELSE visible
    /\ UNCHANGED <<caller, update_out, store_before, meta_writes, fetchVars, engineVars,
                   formatVars, upstream, build_pc, sources, src_idx, counts, nbuilds,
                   last_build, prev_build, nchanges>>

\* search() with every parameter at its default
SearchDefault == SearchWith({DefaultCall})

\* _insert_dataset between two build calls: a new key, or one that build writes
InsertBetween == InsertWith({<<DsTwo, "openneuro">>})

----------------------------------------------------------------------------
(* Initial state and specifications *)

StoreInit ==
    /\ datasets = {}
    /\ datasets_fts = {}
    /\ indexed = <<>>
    /\ search_out = NoSearch
    /\ db_exists = FALSE
    /\ built = FALSE
    /\ stats_out = NoStats
    /\ clear_out = NoClear

FetchIdle ==
    /\ adapter = "none"
    /\ max_datasets = 0
    /\ all_datasets = <<>>
    /\ page = 1
    /\ fetch_pc = "idle"
    /\ responses = <<>>

BuildIdle ==
    /\ upstream = InitialUpstream
    /\ build_pc = "idle"
    /\ sources = <<>>
    /\ src_idx = 1
    /\ counts = EmptyDict
    /\ metadata = EmptyDict
    /\ nbuilds = 0
    /\ last_build = NoBuild
    /\ prev_build = NoBuild
    /\ nchanges = 0

EngineIdle ==
    /\ in_datasets = <<>>
    /\ fn_out = NoCall

FormatIdle ==
    /\ fmt_in = [adapter |-> "none"]
    /\ fmt_out = NotFormatted

NoCaller ==
    /\ caller = "none"
    /\ update_out = NoUpdate
    /\ store_before = EmptyStore
    /\ meta_writes = 0
    /\ visible = EmptyStore

Init == StoreInit /\ FetchIdle /\ BuildIdle /\ EngineIdle /\ FormatIdle /\ NoCaller

\* any list of records in memory, nothing else going on
EngineInit ==
    /\ StoreInit /\ FetchIdle /\ BuildIdle /\ FormatIdle /\ NoCaller
    /\ in_datasets \in RecordLists(MaxRecords)
    /\ fn_out = NoCall

\* any raw record of any adapter, nothing else going on
FormatInit ==
    /\ StoreInit /\ FetchIdle /\ BuildIdle /\ EngineIdle /\ NoCaller
    /\ \E a \in Adapters : \E raw \in RawRecords(a) : fmt_in = [adapter |-> a, raw |-> raw]
    /\ fmt_out = NotFormatted

\* the store driven directly, as the tests of database.py drive it
Next == InsertDataset \/ Search

Spec == Init /\ [][Next]_vars

\* one call of an adapter's fetch_all_datasets
FetchNext == FetchCall \/ OpenNeuroPage \/ DandiPage \/ PhysioNetPage \/ ZenodoPage

FetchSpec == Init /\ [][FetchNext]_vars

\* one call of fetch_all_datasets against a repository whose pages end in a
\* tail; the loop is sequential code and every request comes back, with a
\* page or with a failure, so a page step that can be taken is taken
TailNext ==
    \/ FetchCall \/ OpenNeuroPage \/ DandiPage \/ PhysioNetPage \/ ZenodoPage
    \/ OpenNeuroTail \/ DandiTail \/ PhysioNetTail \/ ZenodoTail

TailSpec ==
    /\ Init
    /\ [][TailNext]_vars
    /\ WF_vars(OpenNeuroPage) /\ WF_vars(DandiPage)
    /\ WF_vars(PhysioNetPage) /\ WF_vars(ZenodoPage)
    /\ WF_vars(OpenNeuroTail) /\ WF_vars(DandiTail)
    /\ WF_vars(PhysioNetTail) /\ WF_vars(ZenodoTail)

\* build calls against changing upstreams
BuildNext == BuildCall \/ BuildSource \/ BuildFinish \/ UpstreamChange

BuildSpec == Init /\ [][BuildNext]_vars

\* the calls of the store's public functions, one after the other
StoreNext ==
    \/ BuildCall \/ BuildSource \/ BuildFinish \/ SearchDefault \/ GetStats \/ Clear
    \/ InsertBetween

StoreSpec == Init /\ [][StoreNext]_vars

\* the functions of search.py on a list in memory
EngineNext == SearchDatasets \/ SortDatasets \/ SortAgain

EngineSpec == EngineInit /\ [][EngineNext]_vars

\* format_dataset of the four adapters
FormatNext == OpenNeuroFormatCall \/ DandiFormatCall \/ PhysioNetFormatCall \/ ZenodoFormatCall

FormatSpec == FormatInit /\ [][FormatNext]_vars

\* build and update calls against changing upstreams, with the calls that read
\* the store or write a row between them
CallNext ==
    \/ BuildCall \/ UpdateCall \/ BuildSource \/ BuildFinish \/ UpstreamChange
    \/ SearchDefault \/ GetStats \/ InsertBetween

CallSpec == Init /\ [][CallNext]_vars

----------------------------------------------------------------------------
(* Properties of the store *)

\* the composite keys indexed so far, and the calls made for one key, in order
IndexedKeys == {indexed[i].key : i \in DOMAIN indexed}
Versions(key) == SelectSeq(indexed, LAMBDA c : c.key = key)
Latest(key) == Versions(key)[Len(Versions(key))]
Previous(key) == Versions(key)[Len(Versions(key)) - 1]

\* the tokens of the text fields of a record: name, readme/abstract and tasks
RecordTokens(d) ==
    Tokenize(Get(d, "name", None)) \cup Tokenize(Get(d, "readme", None))
        \cup Tokenize(Get(d, "abstract", None))
        \cup Tokenize(JsonDumpsList(Get(d, "tasks", <<>>)))

\* a search with a text query, no other filter and a limit that covers all rows
FullTextSearchDone ==
    /\ search_out.status # "none"
    /\ search_out.query # NoQuery
    /\ [search_out EXCEPT !.query = NoQuery, !.status = "none", !.results = <<>>] = NoSearch

\* C1: after any sequence of _insert_dataset calls the table holds exactly one row per
\* distinct composite key source:id, and that row carries the values of the most recent
\* record indexed under the key.
C1_OneRowPerKeyLatest ==
    /\ {r.id : r \in datasets} = IndexedKeys
    /\ \A key \in IndexedKeys : Cardinality({r \in datasets : r.id = key}) = 1
    /\ \A r \in datasets :
        LET last == Latest(r.id)
        IN  /\ r.source = last.source
            /\ JsonLoads(r.data_json) = last.dataset
            /\ r.name = Get(last.dataset, "name", None)
            /\ r.readme = Get(last.dataset, "readme", None)
            /\ r.downloads = Get(last.dataset, "downloads", 0)

\* C1 witness: a key was indexed twice with different records
C1_Witness ==
    \E key \in IndexedKeys :
        /\ Len(Versions(key)) >= 2
        /\ Latest(key).dataset # Previous(key).dataset

\* C2: the full-text index holds exactly one entry per existing primary row, carrying
\* that row's current id, name, readme and tasks, and no entry for a row or row version
\* that no longer exists.
C2_FtsMirrorsRows == datasets_fts = {FtsEntry(r) : r \in datasets}

\* C3: after a record is re-indexed under the same source:id with different text, a
\* search for a token that occurred only in the replaced version is answered without
\* the record, and a search for a token that occurs only in the new version returns it.
C3_SearchReflectsLatestVersion ==
    FullTextSearchDone =>
        \A key \in IndexedKeys :
            Len(Versions(key)) >= 2 =>
                LET new == Latest(key).dataset
                    old == Previous(key).dataset
                    token == Lower(search_out.query)
                IN  /\ (token \in RecordTokens(old) \ RecordTokens(new)) =>
                        (search_out.status = "ok" /\ new \notin Range(search_out.results))
                    /\ (token \in RecordTokens(new) \ RecordTokens(old)) =>
                        (search_out.status = "ok" /\ new \in Range(search_out.results))

\* C10: a search for a token that occurs (case-insensitively) in the name, the
\* readme/abstract or a task of a stored record returns that record, and a search for a
\* token that occurs in no stored record returns the empty list.
C10_FullTextRoundTrip ==
    FullTextSearchDone =>
        LET token == Lower(search_out.query)
            stored == {JsonLoads(r.data_json) : r \in datasets}
        IN  /\ search_out.status = "ok"
            /\ \A d \in stored :
                token \in RecordTokens(d) => d \in Range(search_out.results)
            /\ (\A r \in datasets :
                    token \notin RecordTokens(JsonLoads(r.data_json)) \cup Tokenize(KeyText(r.id)))
                => search_out.results = <<>>

----------------------------------------------------------------------------
(* Properties of database.search *)

\* the records the store holds, as search returns them
StoredRecords == {RowToRecord(r) : r \in datasets}

\* the call behind search_out, and the same call with some parameters replaced
LastCall == [k \in DOMAIN DefaultCall |-> search_out[k]]

\* a search that returned, with a limit that covers every row and no offset
SearchReturnedAll ==
    /\ search_out.status = "ok"
    /\ search_out.limit = DefaultLimit
    /\ search_out.offset = 0

\* C11: a search with a query returns only records for which the query matches a token
\* of the indexed text fields name, readme/abstract or tasks (a record whose only match
\* lies in another stored column, such as its source:id key, is not returned); with the
\* query absent no record is excluded on text grounds.
C11_QueryMatchesTextFieldsOnly ==
    (SearchReturnedAll /\ [LastCall EXCEPT !.query = NoQuery] = DefaultCall) =>
        IF search_out.query # NoQuery
        THEN \A d \in Range(search_out.results) :
                Lower(search_out.query) \in RecordTokens(d)
        ELSE Range(search_out.results) = StoredRecords

\* the elements of a set as a list, in some order
SetToSeq(S) ==
    CHOOSE s \in [1..Cardinality(S) -> S] : \A i, j \in DOMAIN s : i # j => s[i] # s[j]

\* the criteria of search_datasets that search_out's call shares with it
SharedCriteria ==
    [NoCriteria EXCEPT !.modality = search_out.modality,
                       !.min_subjects = search_out.min_subjects,
                       !.max_subjects = search_out.max_subjects,
                       !.min_downloads = search_out.min_downloads,
                       !.has_readme = search_out.has_readme]

\* a search by structured filters only: no query, no source, every row in range
FilterSearchDone ==
    /\ SearchReturnedAll
    /\ search_out.query = NoQuery
    /\ search_out.source = ""
    /\ search_out.order_by = "downloads"

\* C12: for every set of stored records and every combination of modality,
\* min_subjects, max_subjects, min_downloads and has_readme (query absent, limit
\* covering all rows), database.search returns the same set of records as the
\* in-memory search_datasets on the same records with the same criteria, also for
\* records whose n_subjects, downloads or readme is missing or null and for modality
\* strings in any letter case.
C12_StoreSearchEqualsInMemory ==
    FilterSearchDone =>
        LET mem == search_datasets(SetToSeq(StoredRecords), SharedCriteria)
        IN  /\ mem.status = "ok"
            /\ Range(mem.results) = Range(search_out.results)

\* the value of the order_by field of a returned record (the column's default when
\* the record lacks the field)
FieldValue(d, col) ==
    IF col \in NumericColumns THEN Get(d, col, 0) ELSE Get(d, col, None)

\* record a may come before record b in descending order of col (null is lowest)
NonIncreasing(col, a, b) ==
    IF col \in NumericColumns THEN FieldValue(a, col) >= FieldValue(b, col)
    ELSE TextLessEq(FieldValue(b, col), FieldValue(a, col))

\* the rows that match the call behind search_out
Matching == WhereRows(datasets, datasets_fts, LastCall)

\* the results of the pages taken at offsets 0, limit, ..., (n-1)*limit with the
\* other parameters of the call behind search_out, one after the other
RECURSIVE PagesFrom(_, _)
PagesFrom(k, n) ==
    IF k >= n THEN <<>>
    ELSE search(datasets, datasets_fts,
                [LastCall EXCEPT !.offset = k * search_out.limit]).results
         \o PagesFrom(k + 1, n)

AllPages ==
    PagesFrom(0, (Cardinality(Matching) + search_out.limit - 1) \div search_out.limit)

\* C13: search returns exactly the records at positions offset .. offset+limit-1 of the
\* matching records in descending order of the order_by field: at most limit records,
\* non-increasing in order_by, and over an unchanged store the pages taken at offsets
\* 0, limit, 2*limit, ... are pairwise disjoint and together hold every matching
\* record exactly once.
C13_PagesPartitionOrderedMatches ==
    (search_out.status # "none" /\ search_out.order_by \in valid_orders) =>
        LET limit == search_out.limit
            offset == search_out.offset
            last == IF offset + limit < Len(AllPages) THEN offset + limit ELSE Len(AllPages)
        IN  /\ search_out.status = "ok"
            /\ Len(search_out.results) <= limit
            /\ \A i, j \in DOMAIN search_out.results :
                i < j => NonIncreasing(search_out.order_by,
                                       search_out.results[i], search_out.results[j])
            /\ Len(AllPages) = Cardinality(Matching)
            /\ Range(AllPages) = {RowToRecord(r) : r \in Matching}
            /\ \A i, j \in DOMAIN AllPages : i # j => AllPages[i] # AllPages[j]
            /\ \A i, j \in DOMAIN AllPages :
                i < j => NonIncreasing(search_out.order_by, AllPages[i], AllPages[j])
            /\ search_out.results = SubSeq(AllPages, offset + 1, last)

\* C14: for every order_by value outside the allow-list {downloads, views, n_subjects,
\* size_gb, name, created}, search does not fail and returns the same result, in the
\* same order, as the same call with order_by = "downloads".
C14_UnknownOrderFallsBack ==
    (search_out.status # "none" /\ search_out.order_by \notin valid_orders) =>
        /\ search_out.status = "ok"
        /\ search_out.results =
            search(datasets, datasets_fts, [LastCall EXCEPT !.order_by = "downloads"]).results
        /\ \A i, j \in DOMAIN search_out.results :
            i < j => NonIncreasing("downloads", search_out.results[i], search_out.results[j])

\* C15: index-then-search is a round trip on the record: every record search returns
\* is equal, field for field and including source-specific extra fields, to the record
\* most recently indexed under its source:id.
C15_ResultsAreLatestIndexedRecords ==
    search_out.status = "ok" =>
        \A i \in DOMAIN search_out.results :
            \E key \in IndexedKeys :
                /\ search_out.results[i] = Latest(key).dataset
                /\ Get(search_out.results[i], "id", "") = key[2]
                /\ search_out.source # "" => key[1] = search_out.source

\* C15 witness: a search returned the second version of a re-indexed record and a
\* record with a field that is no column of the table
C15_Witness ==
    /\ search_out.status = "ok"
    /\ \E key \in IndexedKeys :
        /\ Len(Versions(key)) >= 2
        /\ Latest(key).dataset # Previous(key).dataset
        /\ Latest(key).dataset \in Range(search_out.results)
    /\ \E d \in Range(search_out.results) : "abstract" \in DOMAIN d

----------------------------------------------------------------------------
(* Properties of database.get_stats and database.clear *)

\* the fields get_stats reports about a store that exists
StoreFields == {"path", "total_datasets", "by_source", "last_build", "size_mb"}

\* C16: whenever no build or update has run since the store location was
\* fresh or last cleared, get_stats reports exists = false and gives no counts,
\* path, size or build time, whatever search, get_stats and clear calls came
\* before it.
C16_NoStoreBeforeBuild ==
    (stats_out.status = "ok" /\ ~built) =>
        /\ stats_out.result.exists = FALSE
        /\ DOMAIN stats_out.result \cap StoreFields = {}

\* C17: clear returns true exactly when a store existed at the location; a
\* clear that directly follows a clear returns false, a get_stats that directly
\* follows a clear reports exists = false, and no store is left behind.
C17_ClearReturnsWhetherStoreExisted ==
    /\ clear_out.status = "ok" =>
        /\ clear_out.returned = clear_out.existed
        /\ ~db_exists
        /\ clear_out.repeated => clear_out.returned = FALSE
    /\ (stats_out.status = "ok" /\ stats_out.after_clear) =>
        stats_out.result.exists = FALSE

\* a store some build filled was cleared, and clear was called once more
C17_Witness ==
    /\ clear_out.status = "ok"
    /\ clear_out.repeated
    /\ clear_out.returned = FALSE
    /\ nbuilds >= 1

----------------------------------------------------------------------------
(* Properties of search_datasets and sort_datasets *)

\* n_subjects of a record, a missing or null one counted as 0
SubjectsOf(d) ==
    IF Get(d, "n_subjects", NoneNum) = NoneNum THEN 0 ELSE d.n_subjects

\* record d satisfies the criterion of a stage
Meets(stage, c, d) ==
    CASE stage = "min_subjects" -> SubjectsOf(d) >= c.min_subjects
      [] stage = "max_subjects" -> SubjectsOf(d) <= c.max_subjects
      [] OTHER -> StageKeeps(stage, c, d)

\* record d satisfies every criterion supplied in c
MeetsAll(c, d) == \A stage \in Range(Stages) : Supplied(stage, c) => Meets(stage, c, d)

\* orders the seven predicates can be applied in: the rotations of the code's
\* order and of its reverse
StageOrders ==
    {SubSeq(o, k, Len(o)) \o SubSeq(o, 1, k - 1) :
        o \in {Stages, Reverse(Stages)}, k \in DOMAIN Stages}

\* C18: search_datasets returns exactly the records of its input that satisfy
\* every supplied criterion, in input order; applying the predicates in any
\* other order gives the same result; with no criterion the input comes back
\* unchanged.
C18_FilterIsConjunctionInInputOrder ==
    fn_out.fn = "search_datasets" =>
        /\ fn_out.status = "ok"
        /\ fn_out.results = SelectSeq(in_datasets, LAMBDA d : MeetsAll(fn_out.criteria, d))
        /\ \A order \in StageOrders :
              ApplyStages([status |-> "ok", results |-> in_datasets], order,
                          fn_out.criteria)
                = [status |-> fn_out.status, results |-> fn_out.results]
        /\ fn_out.criteria = NoCriteria => fn_out.results = in_datasets

\* the value record d has for the sort field (None when it has none)
FieldOf(d, by) == Get(d, by, FieldNone(by))

\* the records of a list that have value v for the sort field, in list order
WithValue(l, by, v) == SelectSeq(l, LAMBDA d : FieldOf(d, by) = v)

C20_MissingIsAlwaysLast ==
    (fn_out.fn = "sort_datasets" /\ fn_out.status = "ok") =>
        \A i, j \in DOMAIN fn_out.results :
            (i < j /\ FieldOf(fn_out.results[i], fn_out.by) = FieldNone(fn_out.by))
                => FieldOf(fn_out.results[j], fn_out.by) = FieldNone(fn_out.by)

----------------------------------------------------------------------------
(* Properties of format_dataset *)

\* the number fields of the common record that have a default
NumberFields == {"n_subjects", "size_gb", "downloads", "views"}

\* C21: on a raw record with any of its fields absent or null, every adapter's
\* format_dataset returns, and what it returns holds every number field and
\* every list field of the common record with a value (0 and the empty list
\* when the input gave none), never None.
C21_FormatFillsDefaults ==
    fmt_out.status # "none" =>
        /\ fmt_out.status = "ok"
        /\ \A f \in NumberFields :
              f \in DOMAIN fmt_out.dataset /\ fmt_out.dataset[f] # NoneNum
        /\ "modalities" \in DOMAIN fmt_out.dataset /\ fmt_out.dataset.modalities # None
        /\ "tasks" \in DOMAIN fmt_out.dataset /\ fmt_out.dataset.tasks # NoneTexts

\* the raw record carries a name or title
HasName(a, raw) ==
    CASE a = "openneuro" ->
            \/ OrText(Get(raw, "name", None), <<>>) # <<>>
            \/ "Name" \in DOMAIN OrDict(Get(OrDict(Get(raw, "draft", NoneDict)),
                                            "description", NoneDict))
      [] a = "dandi" ->
            Get(OrDict(Get(raw, "draft_version", NoneDict)), "name", None) # None
      [] a = "physionet" -> Get(raw, "title", None) # None
      [] a = "zenodo" ->
            Get(OrDict(Get(raw, "metadata", NoneDict)), "title", None) # None

\* C22: for every adapter, format_dataset on a raw record without a name or
\* title returns a record whose name is the record's id.
C22_NameFallsBackToId ==
    (fmt_out.status # "none" /\ ~HasName(fmt_in.adapter, fmt_in.raw)) =>
        /\ fmt_out.status = "ok"
        /\ fmt_out.dataset.name = <<fmt_out.dataset.id>>

\* C26: whenever the store exists, get_stats reports as total_datasets the
\* number of persisted rows, which is the number of different keys written
\* since the store was created, and as by_source[s] the number of those tagged
\* s; the by_source counts add up to total_datasets.
C26_StatsCountPersistedRows ==
    (stats_out.status = "ok" /\ stats_out.result.exists) =>
        LET res == stats_out.result
        IN  /\ res.total_datasets = Cardinality(datasets)
            /\ res.total_datasets = Cardinality(IndexedKeys)
            /\ res.total_datasets = SumValues(res.by_source)
            /\ \A src \in Adapters :
                  Get(res.by_source, src, 0) = Cardinality({k \in IndexedKeys : k[1] = src})

\* get_stats was called on a store of rows of two sources or more that a build
\* and an insert wrote, one key more than once
C26_Witness ==
    /\ stats_out.status = "ok"
    /\ stats_out.result.exists
    /\ nbuilds >= 1
    /\ Cardinality(DOMAIN stats_out.result.by_source) >= 2
    /\ Len(indexed) > Cardinality(IndexedKeys)
    /\ \E i \in DOMAIN indexed : indexed[i].dataset = DsTwo

\* C30: a call of fetch_all_datasets terminates, for every adapter, when from
\* some page on every response is empty, reports no further pages, or is a
\* failure.
C30_FetchTerminates == (fetch_pc = "loop") ~> (fetch_pc \in {"returned", "raised"})

----------------------------------------------------------------------------
(* Properties of build and update calls *)

\* the rows of a store that are not tagged with source s
OtherRows(db, s) == {r \in db.datasets : r.source # s}

\* the full-text entries a store holds for row r
EntriesOf(db, r) == {e \in db.datasets_fts : e.rowid = r.rowid}

\* the store as the connection of the running call sees it
CurrentStore == [datasets |-> datasets, datasets_fts |-> datasets_fts, metadata |-> metadata]

\* C23: update(s) returns the count build([s]) returned for s, and while it
\* runs and when it has returned every row of another source and its
\* full-text entries are what they were when update was called.
C23_UpdateChangesOnlyItsSource ==
    LET s == sources[1]
    IN  /\ update_out.status = "ok" =>
              (s \in DOMAIN last_build.counts => update_out.returned = last_build.counts[s])
        /\ (caller = "update" /\ (build_pc = "loop" \/ update_out.status = "ok")) =>
              /\ OtherRows(CurrentStore, s) = OtherRows(store_before, s)
              /\ \A r \in OtherRows(store_before, s) :
                    EntriesOf(CurrentStore, r) = EntriesOf(store_before, r)

\* update returned a count above 0 for a source whose rows it replaced or
\* added, in a store that held rows of other sources
C23_Witness ==
    /\ update_out.status = "ok"
    /\ update_out.returned > 0
    /\ OtherRows(store_before, sources[1]) # {}
    /\ datasets # store_before.datasets
    /\ \E r \in store_before.datasets : r.source = sources[1]

\* C24: a build or update call writes the Build Metadata exactly once, in its
\* last step after the loop over the requested sources (also when every source
\* failed): while the loop runs the metadata rows are those of before the
\* call, after the call they hold this call's time and total, and no step of
\* search, get_stats or _insert_dataset changes them.
C24_MetadataWrittenOnceAfterLoop ==
    /\ [](build_pc = "loop" => (meta_writes = 0 /\ metadata = store_before.metadata))
    /\ []((caller # "none" /\ build_pc = "idle") =>
            /\ meta_writes = 1
            /\ Get(metadata, "last_build", None) = Str(nbuilds)
            /\ Get(metadata, "total_datasets", None) = Str(SumValues(last_build.counts)))
    /\ [][metadata' # metadata =>
            (build_pc = "loop" /\ src_idx > Len(sources) /\ build_pc' = "idle")]_vars

\* a build of known sources has returned with a count of 0 for each of them,
\* and the metadata rows hold its time and the total 0
C24_Witness ==
    /\ caller = "build"
    /\ build_pc = "idle"
    /\ DOMAIN last_build.counts # {}
    /\ \A s \in DOMAIN last_build.counts : last_build.counts[s] = 0
    /\ meta_writes = 1
    /\ metadata["total_datasets"] = Str(0)
    /\ metadata["last_build"] = Str(nbuilds)

\* the composite keys of the rows of a table
RowKeys(tbl) == {r.id : r \in tbl}

\* C27: without a clear the set of persisted keys never shrinks across build
\* and update calls: no step removes a key, the persisted keys are all the
\* keys ever written, and a search with default arguments returns the latest
\* record of each of them, also of one that its repository no longer serves.
C27_KeysNeverShrink ==
    /\ [][RowKeys(datasets) \subseteq RowKeys(datasets')]_vars
    /\ [](RowKeys(datasets) = IndexedKeys)
    /\ []((search_out.status = "ok" /\ search_out.source = "") =>
            \A key \in IndexedKeys : Latest(key).dataset \in Range(search_out.results))

\* a build wrote ds1 and ds2 of openneuro, openneuro then served ds1 only, the
\* next build wrote that one record, and a search still returned ds2
C27_Witness ==
    /\ build_pc = "idle"
    /\ nbuilds = 2
    /\ prev_build.counts = [openneuro |-> 2]
    /\ last_build.counts = [openneuro |-> 1]
    /\ last_build.upstream["openneuro"] =
          << [kind |-> "ok", edges |-> <<NodeOneNew>>, hasNextPage |-> FALSE] >>
    /\ Len(Versions(<<"openneuro", "ds2">>)) = 1
    /\ <<"openneuro", "ds2">> \in RowKeys(datasets)
    /\ search_out.status = "ok"
    /\ \E i \in DOMAIN search_out.results : search_out.results[i].id = "ds2"

\* C28: the writes of a build or update call become visible to other
\* connections atomically at its single commit: while the call runs they read
\* the rows, index entries and metadata of before the call, and the one step
\* in which that changes is the last step of the call, after which they read
\* all of its writes.
C28_WritesVisibleAtCommit ==
    /\ [](build_pc = "loop" => visible = store_before)
    /\ [](build_pc = "idle" => visible = CurrentStore)
    /\ [][(build_pc = "loop" /\ visible' # visible) =>
            (src_idx > Len(sources) /\ build_pc' = "idle")]_vars

\* a build of two sources or more has returned: other connections read the
\* rows of both and the new metadata, none of which they read before
C28_Witness ==
    /\ build_pc = "idle"
    /\ caller = "build"
    /\ Cardinality({s \in DOMAIN last_build.counts : last_build.counts[s] > 0}) >= 2
    /\ store_before.datasets # {}
    /\ Cardinality(visible.datasets \ store_before.datasets) >= 2
    /\ visible.metadata # store_before.metadata
    /\ visible = CurrentStore

\* the rows the running call has written so far: each insert takes a new rowid
WrittenRows == datasets \ store_before.datasets

\* C29: the count build reports for a source is the number of distinct rows
\* of that source this pass wrote to the store, and the counts add up to the
\* number of rows the pass wrote, also when the repository served an
\* identifier twice or an insert failed part-way through the source.
C29_CountsAreRowsWritten ==
    build_pc = "loop" =>
        /\ \A s \in DOMAIN counts :
              counts[s] = Cardinality({r \in WrittenRows : r.source = s})
        /\ SumValues(counts) = Cardinality(WrittenRows)

----------------------------------------------------------------------------
(* Properties of fetch_all_datasets *)

\* the records of all pages received by the running call, in upstream order
Fetched == Concat(responses)

LastResponse == responses[Len(responses)]

\* C5: with max_records N >= 1 every adapter returns at most N records, exactly the
\* first N in upstream order when the pages fetched hold N or more, and requests no
\* page once the accumulated count has reached N.
C5_MaxRecordsClipped ==
    max_datasets >= 1 =>
        /\ fetch_pc = "returned" =>
            /\ Len(all_datasets) <= max_datasets
            /\ Len(Fetched) >= max_datasets =>
                all_datasets = SubSeq(Fetched, 1, max_datasets)
        /\ fetch_pc = "loop" => Len(all_datasets) < max_datasets

\* C6: without a maximum, paging stops at the first page that returns zero records or
\* for which the adapter reports no further pages, and the result is the concatenation
\* of the records of the pages fetched.
C6_PagingStopsAtLastPage ==
    max_datasets = NoMax =>
        /\ (fetch_pc = "loop" /\ responses # <<>> /\ LastResponse.kind = "ok") =>
            /\ PageRecords(LastResponse) # <<>>
            /\ ~NoFurtherPages(adapter, LastResponse, Len(Fetched))
        /\ fetch_pc = "returned" => all_datasets = Fetched

\* C7: when the request for a page k > 1 fails (transport error, non-success status or
\* malformed payload) the call raises nothing, requests no further page and returns
\* the records of pages 1..k-1.
C7_FailureReturnsPartial ==
    \A k \in 2..Len(responses) :
        responses[k].kind # "ok" =>
            /\ fetch_pc = "returned"
            /\ Len(responses) = k
            /\ all_datasets = Concat(SubSeq(responses, 1, k - 1))

----------------------------------------------------------------------------
(* Properties of build *)

\* a build call has returned and no other is running
BuildReturned == build_pc = "idle" /\ nbuilds >= 1

\* the id of a raw record, as its repository names it
RawId(s, raw) ==
    CASE s = "openneuro" -> raw.id
      [] s = "dandi" -> raw.identifier
      [] s = "physionet" -> raw.slug

\* the first page request of a fetch against up fails
FetchFails(up) == up[1].kind # "ok"

\* every page of up is served
AllServed(up) == \A k \in DOMAIN up : up[k].kind = "ok"

\* every page of up is served, and every record of it has an id and binds
Healthy(s, up) ==
    \A k \in DOMAIN up :
        /\ up[k].kind = "ok"
        /\ \A raw \in Range(PageRecords(up[k])) :
            /\ ~FormatRaises(s, raw)
            /\ Get(raw, "license", LicNone) # LicList

\* the composite keys of the records up serves
RawKeys(s, up) == {<<s, RawId(s, raw)>> : raw \in Range(Concat(up))}

\* C4: build([s]) called twice in succession against an unchanged upstream of s returns
\* the same count for s both times and leaves the same set of source:id keys and the
\* same number of rows as the first call.
C4_RebuildIdempotent ==
    (build_pc = "idle" /\ nbuilds >= 2) =>
        \A s \in KnownSources :
            (/\ prev_build.sources = <<s>>
             /\ last_build.sources = <<s>>
             /\ prev_build.upstream[s] = last_build.upstream[s]) =>
                /\ s \in DOMAIN prev_build.counts
                /\ s \in DOMAIN last_build.counts
                /\ last_build.counts[s] = prev_build.counts[s]
                /\ last_build.ids = prev_build.ids
                /\ last_build.nrows = prev_build.nrows

\* C4 witness: the same source was built twice against the same upstream, and records
\* were indexed
C4_Witness ==
    /\ build_pc = "idle"
    /\ nbuilds >= 2
    /\ \E s \in KnownSources :
        /\ prev_build.sources = <<s>>
        /\ last_build.sources = <<s>>
        /\ prev_build.upstream[s] = last_build.upstream[s]
        /\ last_build.counts[s] >= 2

\* C8: when the fetch of one requested source fails, build does not raise, records 0
\* for that source and still fetches and indexes every other requested source,
\* whatever the position of the failing source.
C8_SourceOutageDoesNotAbort ==
    /\ build_pc # "raised"
    /\ BuildReturned =>
        \A i \in DOMAIN last_build.sources :
            LET s == last_build.sources[i]
            IN  (s \in KnownSources /\ FetchFails(last_build.upstream[s])) =>
                    /\ s \in DOMAIN last_build.counts
                    /\ last_build.counts[s] = 0
                    /\ \A j \in DOMAIN last_build.sources \ {i} :
                        LET t == last_build.sources[j]
                            up == last_build.upstream[t]
                        IN  (t \in KnownSources /\ Healthy(t, up)) =>
                                /\ t \in DOMAIN last_build.counts
                                /\ last_build.counts[t] = Len(Concat(up))
                                /\ RawKeys(t, up) \subseteq last_build.ids

\* C8 witness: the first of three requested sources failed and the two after it were
\* indexed
C8_Witness ==
    /\ BuildReturned
    /\ last_build.sources = DefaultSources
    /\ FetchFails(last_build.upstream["openneuro"])
    /\ last_build.counts["dandi"] > 0
    /\ last_build.counts["physionet"] > 0

\* C9: build returns a mapping with exactly one entry for every requested source name:
\* the number of records indexed for it, or 0 when its fetch failed or it could not be
\* processed.
C9_CountForEveryRequestedSource ==
    BuildReturned =>
        /\ DOMAIN last_build.counts = Range(last_build.sources)
        /\ \A s \in DOMAIN last_build.counts : last_build.counts[s] \in Nat

\* C9 as amended: the mapping has exactly one entry for every requested name that build
\* knows (openneuro, dandi, physionet) - the number of records indexed for it, or 0
\* when its fetch failed or it could not be processed - and none for any other name.
C9_CountForEveryKnownSource ==
    BuildReturned =>
        /\ DOMAIN last_build.counts = Range(last_build.sources) \cap KnownSources
        /\ \A s \in DOMAIN last_build.counts :
            LET up == last_build.upstream[s]
            IN  /\ last_build.counts[s] \in 0..Len(Concat(up))
                /\ FetchFails(up) => last_build.counts[s] = 0
                /\ (AllServed(up) /\ ~Healthy(s, up)) => last_build.counts[s] = 0
                /\ Healthy(s, up) => last_build.counts[s] = Len(Concat(up))

\* C9 witness: a build of a name build does not know and of a source that was indexed
C9_Witness ==
    /\ BuildReturned
    /\ \E i, j \in DOMAIN last_build.sources :
        /\ last_build.sources[i] \notin KnownSources
        /\ last_build.sources[j] \in DOMAIN last_build.counts
        /\ last_build.counts[last_build.sources[j]] > 0

====
